---- MODULE Spec2Model ----
(***************************************************************************)
(* A model of chromedriver_downloader.py: the ChromeDriverDownloader class *)
(* (catalog fetch and cache, get_filtered_versions, _compare_versions,     *)
(* download_driver, find_missing_drivers) and the three commands of main.  *)
(*                                                                         *)
(* Strings.  A version string is modelled by what version.split('.')       *)
(* yields: a sequence of segments, each segment a sequence of decimal      *)
(* digits.  "114.0.01" is << <<1,1,4>>, <<0>>, <<0,1>> >>.  String         *)
(* equality is equality of these sequences; int() is DigitsToInt.          *)
(* A directory name "<major>.0" is the two-segment sequence                *)
(* << major, <<0>> >>.                                                      *)
(***************************************************************************)
EXTENDS Integers, Sequences, FiniteSets, TLC

VARIABLES
    pc,              \* position of the run (which call is next)
    command,         \* args.command
    platform,        \* args.platform  (None when not given)
    arch,            \* args.arch      (None when not given)
    version_filter,  \* args.version   (None when not given)
    latest_only,     \* args.latest
    include_legacy,  \* not args.no_legacy
    auto_download,   \* args.download of the missing command
    netModern,       \* the JSON document the modern endpoint serves
    netLegacy,       \* the version prefixes the legacy bucket listing serves
    data,            \* self.data
    legacy_data,     \* self.legacy_data
    modernGets,      \* number of requests.get(self.json_url) so far
    legacyGets,      \* number of requests.get(self.legacy_url + ...) so far
    modernOk,        \* outcome of the last modern fetch ("none" before any)
    legacyOk,        \* outcome of the last legacy fetch ("none" before any)
    versions,        \* value returned by the last get_filtered_versions
    dir_exists,      \* whether the drivers (output) directory exists
    existing,        \* names of the subdirectories of the drivers directory
    missing,         \* value returned by find_missing_drivers
    pending,         \* the download_driver calls still to be made, in order
    attempts,        \* the download_driver calls made so far, in order
    archive,         \* root entries of the archive the download URLs serve
    source_dir,      \* payload root chosen by the last download_driver
    cmpA, cmpB,      \* arguments of _compare_versions
    cmpOut, cmpRev   \* _compare_versions(cmpA,cmpB), _compare_versions(cmpB,cmpA)

vars == << pc, command, platform, arch, version_filter, latest_only,
           include_legacy, auto_download, netModern, netLegacy, data,
           legacy_data, modernGets, legacyGets, modernOk, legacyOk, versions,
           dir_exists, existing, missing, pending, attempts, archive,
           source_dir, cmpA, cmpB, cmpOut, cmpRev >>

None == "None"                \* an absent platform, arch or table entry

NoFilter == << >>             \* version_filter None or "": both are falsy

\* a string holding digits only, as a filter: one segment and no dot
OneSegment(digits) == << digits >>

NoKeys == << >>               \* platform_keys None or []: both are falsy

\* a Python value that is None or a dict of the JSON catalog
NoneData == [kind |-> "None", keys |-> {}, versions |-> << >>]

\* a Python value that is None or a list of version strings
NoneList == [kind |-> "None", items |-> << >>]

ListOf(items) == [kind |-> "list", items |-> items]

\* the value get_legacy_download_url returns for an unmapped platform
NoUrl == [base |-> None, dir |-> << >>, file |-> << >>]

(***************************************************************************)
(* Bounds of the model.                                                    *)
(***************************************************************************)
MaxSegs == 2        \* segments of a version string handed to the comparator
MaxModern == 2      \* entries of the "versions" array the modern endpoint serves
MaxLegacy == 2      \* prefixes the legacy bucket listing serves

(***************************************************************************)
(* Small helpers on sequences.                                             *)
(***************************************************************************)
Max(a, b) == IF a >= b THEN a ELSE b

Range(s) == { s[i] : i \in 1..Len(s) }

RECURSIVE Flatten(_)
Flatten(ss) == IF ss = << >> THEN << >> ELSE Head(ss) \o Flatten(Tail(ss))

SeqsUpTo(S, n) == UNION { [1..k -> S] : k \in 0..n }

(***************************************************************************)
(* int(x) of a decimal digit string (line 207): most significant first.    *)
(***************************************************************************)
RECURSIVE DigitsToInt(_)
DigitsToInt(ds) ==
    IF Len(ds) = 1 THEN ds[1]
    ELSE 10 * DigitsToInt(SubSeq(ds, 1, Len(ds) - 1)) + ds[Len(ds)]

\* version.split('.')[0]
MajorOf(version) == version[1]

(***************************************************************************)
(* _compare_versions (lines 205-219).                                      *)
(***************************************************************************)
RECURSIVE CompareFrom(_, _, _)
CompareFrom(v1_parts, v2_parts, i) ==
    IF i > Max(Len(v1_parts), Len(v2_parts)) THEN 0
    ELSE LET v1 == IF i <= Len(v1_parts) THEN v1_parts[i] ELSE 0
             v2 == IF i <= Len(v2_parts) THEN v2_parts[i] ELSE 0
         IN  IF v1 > v2 THEN 1
             ELSE IF v1 < v2 THEN -1
             ELSE CompareFrom(v1_parts, v2_parts, i + 1)

\* a faulty variant of compare_versions: the loop runs over the shorter
\* list only
CompareVersionsShort(version1, version2) ==
    LET n  == IF Len(version1) <= Len(version2) THEN Len(version1) ELSE Len(version2)
        p1 == [i \in 1..n |-> DigitsToInt(version1[i])]
        p2 == [i \in 1..n |-> DigitsToInt(version2[i])]
    IN  CompareFrom(p1, p2, 1)

compare_versions(version1, version2) ==
    LET v1_parts == [i \in 1..Len(version1) |-> DigitsToInt(version1[i])]
        v2_parts == [i \in 1..Len(version2) |-> DigitsToInt(version2[i])]
    IN  CompareFrom(v1_parts, v2_parts, 1)

(***************************************************************************)
(* __init__ (lines 13-32): the two fixed tables.  A Python dict is         *)
(* modelled by the sequence of its keys in insertion order and a lookup.   *)
(***************************************************************************)
PlatformNames == {"windows", "linux"}

\* self.platform_map.get(platform.lower()): None for an unknown platform
platform_map(p) ==
    IF p = "windows" THEN << "win64", "win32" >>
    ELSE IF p = "linux" THEN << "linux64" >>
    ELSE NoKeys

legacy_platforms == << "windows", "linux" >>     \* keys of legacy_platform_map

legacy_archs(p) == << "x64", "x86" >>            \* keys of legacy_platform_map[p]

\* self.legacy_platform_map.get(platform.lower(), {}).get(arch)
legacy_platform_map(p, a) ==
    IF p = "windows" /\ a \in {"x64", "x86"} THEN "win32"
    ELSE IF p = "linux" /\ a = "x64" THEN "linux64"
    ELSE IF p = "linux" /\ a = "x86" THEN "linux32"
    ELSE None

(***************************************************************************)
(* get_legacy_download_url (lines 68-74).  The URL                         *)
(* f"{legacy_url}{version}/chromedriver_{platform_key}.zip" is modelled by *)
(* its three parts.                                                        *)
(***************************************************************************)
get_legacy_download_url(version, p, a) ==
    LET platform_key == legacy_platform_map(p, a)
    IN  IF platform_key = None THEN NoUrl
        ELSE [base |-> "legacy_url", dir |-> version,
              file |-> << "chromedriver_", platform_key, ".zip" >>]

(***************************************************************************)
(* Python truthiness of self.data (a dict or None) and of                  *)
(* self.legacy_data (a list or None): lines 81, 136, 140.  A JSON object   *)
(* is given by its set of keys and the value of its "versions" key.        *)
(***************************************************************************)
TruthyDict(d) == d.kind # "None" /\ d.keys # {}

TruthyList(l) == l.kind # "None" /\ l.items # << >>

\* self.data.get("versions", [])
VersionsOf(d) == IF "versions" \in d.keys THEN d.versions ELSE << >>

(***************************************************************************)
(* fetch_versions (lines 34-43) and fetch_legacy_versions (lines 45-66).   *)
(* ok is whether requests.get and the parse succeeded; served is what the  *)
(* endpoint serves.  A failure leaves the cache field as it was.           *)
(***************************************************************************)
fetch_versions(d, ok, served) ==
    [ret |-> ok, data |-> IF ok THEN served ELSE d]

\* re.match(r'^\d+\.\d+\.\d+\.\d+$', version)
IsDottedQuad(prefix) ==
    Len(prefix) = 4 /\ \A i \in 1..4 : Len(prefix[i]) >= 1

\* a faulty variant of fetch_legacy_versions: a failed listing still stores
\* the prefixes parsed so far
FetchLegacyKeepsPartial(ld, ok, served) ==
    [ret |-> ok, legacy_data |-> ListOf(SelectSeq(served, IsDottedQuad))]

fetch_legacy_versions(ld, ok, served) ==
    [ret |-> ok,
     legacy_data |-> IF ok THEN ListOf(SelectSeq(served, IsDottedQuad))
                     ELSE ld]

(***************************************************************************)
(* get_filtered_versions, lines 85-93: the platform tokens requested.      *)
(***************************************************************************)
PlatformKeys(p, a) ==
    IF p = None THEN NoKeys
    ELSE IF a # None /\ a = "x64" /\ p = "windows" THEN << "win64" >>
    ELSE IF a # None /\ a = "x86" /\ p = "windows" THEN << "win32" >>
    ELSE platform_map(p)

\* a faulty variant of PassesVersionFilter: majors compared as numbers
PassesVersionFilterNumeric(version, vf) ==
    \/ vf = NoFilter
    \/ Len(vf) = 1 /\ DigitsToInt(MajorOf(version)) = DigitsToInt(vf[1])

\* lines 100-104 and 143-146: the major-version filter.  The major, a
\* string without a dot, equals the filter string iff the filter is that
\* one segment.
PassesVersionFilter(version, vf) ==
    vf = NoFilter \/ OneSegment(MajorOf(version)) = vf

ModernRecord(version, download) ==
    [version |-> version, platform |-> download.platform,
     download_url |-> download.url, source |-> "modern"]

\* lines 106-132: the records one catalog entry contributes
ModernEntryRecords(version_info, platform_keys) ==
    LET downloads == version_info.downloads
        kept == IF platform_keys # NoKeys
                THEN SelectSeq(downloads,
                               LAMBDA dl : dl.platform \in Range(platform_keys))
                ELSE downloads
    IN  [i \in 1..Len(kept) |-> ModernRecord(version_info.version, kept[i])]

\* lines 96-132: the loop over the modern catalog
ModernRecords(d, p, vf, a) ==
    LET entries == VersionsOf(d)
        keys == PlatformKeys(p, a)
    IN  Flatten([i \in 1..Len(entries) |->
                   IF PassesVersionFilter(entries[i].version, vf)
                   THEN ModernEntryRecords(entries[i], keys)
                   ELSE << >>])

LegacyRecord(version, p, a) ==
    [version |-> version, platform |-> legacy_platform_map(p, a),
     download_url |-> get_legacy_download_url(version, p, a),
     source |-> "legacy"]

\* lines 152-160, 164-172, 177-185: one record when the URL exists
LegacyOne(version, p, a) ==
    IF get_legacy_download_url(version, p, a) # NoUrl
    THEN << LegacyRecord(version, p, a) >>
    ELSE << >>

\* lines 163 and 176: every architecture of one platform
LegacyAllArchs(version, p) ==
    Flatten([k \in 1..Len(legacy_archs(p)) |->
               LegacyOne(version, p, legacy_archs(p)[k])])

\* lines 149-185: the records one legacy version contributes
LegacyVersionRecords(version, p, a) ==
    IF p # None
    THEN IF a # None THEN LegacyOne(version, p, a)
         ELSE LegacyAllArchs(version, p)
    ELSE Flatten([j \in 1..Len(legacy_platforms) |->
                    LegacyAllArchs(version, legacy_platforms[j])])

\* lines 141-185: the loop over self.legacy_data
LegacyRecords(ld, p, vf, a) ==
    Flatten([i \in 1..Len(ld) |->
               IF PassesVersionFilter(ld[i], vf)
               THEN LegacyVersionRecords(ld[i], p, a)
               ELSE << >>])

(***************************************************************************)
(* Lines 188-201: the latest_only reduction.  latest_versions is a dict:   *)
(* a key keeps the position of its first insertion; the key                *)
(* f"{major_version}_{platform}" is the pair (major, platform), which the  *)
(* string determines since a major of digits holds no underscore.          *)
(***************************************************************************)
LatestKey(version_info) == << MajorOf(version_info.version), version_info.platform >>

\* a faulty variant of Replaces: a tie replaces the stored record
ReplacesOnTie(version, stored) == compare_versions(version, stored) >= 0

\* line 197: self._compare_versions(version, latest_versions[key]["version"]) > 0
Replaces(version, stored) == compare_versions(version, stored) > 0

RECURSIVE LatestFold(_, _, _)
LatestFold(filtered, i, latest_versions) ==
    IF i > Len(filtered) THEN latest_versions
    ELSE LET info == filtered[i]
             at == { k \in 1..Len(latest_versions) :
                       LatestKey(latest_versions[k]) = LatestKey(info) }
         IN  IF at = {}
             THEN LatestFold(filtered, i + 1, Append(latest_versions, info))
             ELSE LET k == CHOOSE k \in at : TRUE
                  IN  IF Replaces(info.version, latest_versions[k].version)
                      THEN LatestFold(filtered, i + 1,
                                      [latest_versions EXCEPT ![k] = info])
                      ELSE LatestFold(filtered, i + 1, latest_versions)

LatestOnly(filtered) == LatestFold(filtered, 1, << >>)

(***************************************************************************)
(* get_filtered_versions (lines 76-203) as a function of the cache fields, *)
(* the arguments, and what the network does if asked (okM, okL: whether    *)
(* each fetch succeeds; nm, nl: what each endpoint serves).  It yields the *)
(* returned list, the new cache fields and the number of GETs issued.      *)
(***************************************************************************)
get_filtered_versions(d, ld, p, vf, a, latest, incl, okM, okL, nm, nl) ==
    LET needM == ~TruthyDict(d)
        fm == fetch_versions(d, okM, nm)
        d1 == IF needM THEN fm.data ELSE d
    IN  IF needM /\ ~fm.ret
        THEN [result |-> << >>, data |-> d1, legacy_data |-> ld,
              mGets |-> 1, lGets |-> 0, mOk |-> "failed", lOk |-> "none"]
        ELSE LET modern == ModernRecords(d1, p, vf, a)
                 needL == incl /\ ~TruthyList(ld)
                 fl == fetch_legacy_versions(ld, okL, nl)
                 ld1 == IF needL THEN fl.legacy_data ELSE ld
                 legacy == IF incl /\ TruthyList(ld1)
                           THEN LegacyRecords(ld1.items, p, vf, a)
                           ELSE << >>
                 filtered == modern \o legacy
             IN  [result |-> IF latest /\ filtered # << >>
                             THEN LatestOnly(filtered) ELSE filtered,
                  data |-> d1, legacy_data |-> ld1,
                  mGets |-> IF needM THEN 1 ELSE 0,
                  lGets |-> IF needL THEN 1 ELSE 0,
                  mOk |-> IF needM THEN "ok" ELSE "none",
                  lOk |-> IF needL THEN (IF fl.ret THEN "ok" ELSE "failed")
                          ELSE "none"]

(***************************************************************************)
(* download_driver (lines 238-322).  The extracted archive is given by the *)
(* kind ("absent", "dir", "file") of each root entry the code looks for.   *)
(***************************************************************************)
ArchiveRoot == "temp_extract"                 \* temp_extract_dir itself

first_dir == "chromedriver-win64"             \* line 273

\* a faulty variant of possible_dirs: the bare name tried last
PossibleDirsBareLast ==
    << "chromedriver-win32", "chromedriver-linux64", "chromedriver" >>

\* lines 276-280
possible_dirs ==
    << "chromedriver-win32", "chromedriver", "chromedriver-linux64" >>

CandidateNames == { first_dir } \cup Range(possible_dirs)

NoArchive == [n \in CandidateNames |-> "absent"]

\* os.path.exists(os.path.join(temp_extract_dir, name))
PathExists(layout, name) == name = ArchiveRoot \/ layout[name] # "absent"

\* lines 281-284: the first existing path of possible_dirs, else unchanged
RECURSIVE FirstExisting(_, _, _)
FirstExisting(layout, k, chromedriver_dir) ==
    IF k > Len(possible_dirs) THEN chromedriver_dir
    ELSE IF PathExists(layout, possible_dirs[k]) THEN possible_dirs[k]
    ELSE FirstExisting(layout, k + 1, chromedriver_dir)

\* lines 268-286: source_dir
PayloadRoot(layout, is_legacy) ==
    IF is_legacy THEN ArchiveRoot
    ELSE LET chromedriver_dir ==
                 IF ~PathExists(layout, first_dir)
                 THEN FirstExisting(layout, 1, first_dir)
                 ELSE first_dir
         IN  IF PathExists(layout, chromedriver_dir) THEN chromedriver_dir
             ELSE ArchiveRoot

\* os.listdir(source_dir) (line 291) raises on a path that is a file
ListDirRaises(layout, dir) == dir # ArchiveRoot /\ layout[dir] = "file"

\* f"{major_version}.0" (line 252, line 341)
VersionDir(version) == << MajorOf(version), <<0>> >>

\* the I/O steps of download_driver in the order they run; each may raise
InstallSteps ==
    << "get", "makedirs_output", "makedirs_version", "write_zip",
       "extractall", "copy", "cleanup" >>

StepNo(step) == CHOOSE k \in 1..Len(InstallSteps) : InstallSteps[k] = step

\* whether the run of download_driver gets past the given step when the
\* step failAt raises ("none": no step raises)
Passes(failAt, step) == failAt = "none" \/ StepNo(step) < StepNo(failAt)

\* a faulty variant of download_driver: an exception leaves the function and is
\* not turned into a False return
DownloadDriverRaises(call, dex, subdirs, layout, failAt) ==
    LET root == PayloadRoot(layout, call.is_legacy)
        raised == failAt # "none"
                  \/ ListDirRaises(layout, root)
    IN  [ret |-> ~raised,
         escaped |-> raised,
         dir_exists |-> dex \/ Passes(failAt, "makedirs_output"),
         existing |-> IF Passes(failAt, "makedirs_version")
                      THEN subdirs \cup { VersionDir(call.version) }
                      ELSE subdirs,
         source_dir |-> IF Passes(failAt, "extractall") THEN root ELSE None]

\* the call download_driver(call.download_url, output_dir, call.version,
\* call.is_legacy) on an output directory with the given subdirectories.
\* escaped: whether an exception leaves the function (except Exception
\* at line 320 catches every failure of a step).
download_driver(call, dex, subdirs, layout, failAt) ==
    LET root == PayloadRoot(layout, call.is_legacy)
        raised == failAt # "none"
                  \/ ListDirRaises(layout, root)
    IN  [ret |-> ~raised,
         escaped |-> FALSE,
         dir_exists |-> dex \/ Passes(failAt, "makedirs_output"),
         existing |-> IF Passes(failAt, "makedirs_version")
                      THEN subdirs \cup { VersionDir(call.version) }
                      ELSE subdirs,
         source_dir |-> IF Passes(failAt, "extractall") THEN root ELSE None]

(***************************************************************************)
(* find_missing_drivers (lines 324-362).  version_map is a dict keyed by   *)
(* "<major>.0": a key keeps the position of its first insertion and the    *)
(* value of its last assignment.                                           *)
(***************************************************************************)
MissingEntry(version_dir, version_info) ==
    [version_dir |-> version_dir,
     full_version |-> version_info.version,
     download_url |-> version_info.download_url,
     is_legacy |-> version_info.source = "legacy"]

\* lines 338-345
RECURSIVE VersionMapFold(_, _, _)
VersionMapFold(all_versions, i, version_map) ==
    IF i > Len(all_versions) THEN version_map
    ELSE LET info == all_versions[i]
             key == VersionDir(info.version)
             at == { k \in 1..Len(version_map) : version_map[k].version_dir = key }
         IN  IF at = {}
             THEN VersionMapFold(all_versions, i + 1,
                                 Append(version_map, MissingEntry(key, info)))
             ELSE VersionMapFold(all_versions, i + 1,
                    [version_map EXCEPT ![CHOOSE k \in at : TRUE] =
                                            MissingEntry(key, info)])

\* a faulty variant of NotInstalled: a directory counts when its name starts
\* with the major, whatever follows
NotInstalledByMajor(version_dir, existing_dirs) ==
    \A d \in existing_dirs : d[1] # version_dir[1]

\* line 354: version_dir not in existing_dirs
NotInstalled(version_dir, existing_dirs) == version_dir \notin existing_dirs

\* lines 333-362, from the list get_filtered_versions returned
MissingOf(all_versions, existing_dirs) ==
    IF all_versions = << >> THEN << >>
    ELSE SelectSeq(VersionMapFold(all_versions, 1, << >>),
                   LAMBDA e : NotInstalled(e.version_dir, existing_dirs))

\* a faulty variant of find_missing_drivers: the drivers directory is there
\* only when the resolution returned records
FindMissingDirOnlyWithVersions(d, ld, subdirs, p, a, latest, incl, okM, okL, nm, nl) ==
    LET r == get_filtered_versions(d, ld, p, NoFilter, a, latest, incl,
                                   okM, okL, nm, nl)
    IN  [filtered |-> r,
         dir_exists |-> r.result # << >>,
         missing |-> MissingOf(r.result, subdirs)]

\* the whole call: the directory is created when absent (lines 327-329),
\* then get_filtered_versions(platform, None, arch, latest_only,
\* include_legacy) runs (line 332)
find_missing_drivers(d, ld, subdirs, p, a, latest, incl, okM, okL, nm, nl) ==
    LET r == get_filtered_versions(d, ld, p, NoFilter, a, latest, incl,
                                   okM, okL, nm, nl)
    IN  [filtered |-> r,
         dir_exists |-> TRUE,
         missing |-> MissingOf(r.result, subdirs)]

(***************************************************************************)
(* The inputs the runs are explored on.                                    *)
(***************************************************************************)
\* segment strings: "0", "1", "2", "9", "10", "01"
CmpSegments == { <<0>>, <<1>>, <<2>>, <<9>>, <<1,0>>, <<0,1>> }

CmpVersions == UNION { [1..k -> CmpSegments] : k \in 1..MaxSegs }

V_1_0_0_9  == << <<1>>, <<0>>, <<0>>, <<9>> >>        \* "1.0.0.9"
V_1_0_0_10 == << <<1>>, <<0>>, <<0>>, <<1,0>> >>      \* "1.0.0.10"
V_01_0_0_1 == << <<0,1>>, <<0>>, <<0>>, <<1>> >>      \* "01.0.0.1"
V_01_0_0_2 == << <<0,1>>, <<0>>, <<0>>, <<2>> >>      \* "01.0.0.2"
V_2_0      == << <<2>>, <<0>> >>                      \* "2.0"
V_2_46     == << <<2>>, <<4,6>> >>                    \* "2.46"

\* one element of downloads.chromedriver; the url is opaque catalog data
Download(version, token) ==
    [platform |-> token,
     url |-> [base |-> "modern", dir |-> version, file |-> << token >>]]

Entry(version, tokens) ==
    [version |-> version,
     downloads |-> [i \in 1..Len(tokens) |-> Download(version, tokens[i])]]

ModernEntries ==
    { Entry(V_1_0_0_9,  << "linux64", "mac-x64", "win32", "win64" >>),
      Entry(V_1_0_0_10, << "win64", "win32", "linux64" >>),
      Entry(V_01_0_0_1, << "win32", "linux32" >>),
      Entry(V_2_0,      << >>) }

LegacyPrefixes == { V_1_0_0_9, V_01_0_0_2, V_2_46 }

Injective(s) == \A i, j \in 1..Len(s) : i # j => s[i] # s[j]

\* the documents the modern endpoint may serve: {} , an object without a
\* "versions" key, and objects with a "versions" array
ModernDocs ==
    { [kind |-> "dict", keys |-> {}, versions |-> << >>],
      [kind |-> "dict", keys |-> {"timestamp"}, versions |-> << >>] }
    \cup { [kind |-> "dict", keys |-> {"timestamp", "versions"}, versions |-> es] :
             es \in { q \in SeqsUpTo(ModernEntries, MaxModern) : Injective(q) } }

LegacyListings == { q \in SeqsUpTo(LegacyPrefixes, MaxLegacy) : Injective(q) }

Platforms == { None, "windows", "linux" }

Archs == { None, "x64", "x86" }

VersionFilters == { NoFilter, OneSegment(<<1>>), OneSegment(<<0,1>>) }

(***************************************************************************)
(* Variables a specification does not use keep these values.               *)
(***************************************************************************)
IdleCompare == cmpA = << >> /\ cmpB = << >> /\ cmpOut = 0 /\ cmpRev = 0

IdleArgs ==
    /\ command = None /\ platform = None /\ arch = None
    /\ version_filter = NoFilter /\ latest_only = FALSE
    /\ include_legacy = FALSE /\ auto_download = FALSE

IdleNet ==
    /\ netModern = NoneData /\ netLegacy = << >>
    /\ data = NoneData /\ legacy_data = NoneList
    /\ modernGets = 0 /\ legacyGets = 0
    /\ modernOk = "none" /\ legacyOk = "none" /\ versions = << >>

IdleDisk ==
    /\ dir_exists = FALSE /\ existing = {} /\ missing = << >>
    /\ pending = << >> /\ attempts = << >>
    /\ archive = NoArchive /\ source_dir = None

argVars == << command, platform, arch, version_filter, latest_only,
              include_legacy, auto_download >>

netVars == << netModern, netLegacy >>

cacheVars == << data, legacy_data, modernGets, legacyGets, modernOk,
                legacyOk, versions >>

diskVars == << dir_exists, existing, missing, pending, attempts, archive,
              source_dir >>

cmpVars == << cmpA, cmpB, cmpOut, cmpRev >>

(***************************************************************************)
(* SpecCompare: _compare_versions applied to a pair of version strings.    *)
(***************************************************************************)
InitCompare ==
    /\ pc = "compare"
    /\ cmpA \in CmpVersions /\ cmpB \in CmpVersions
    /\ cmpOut = 0 /\ cmpRev = 0
    /\ IdleArgs /\ IdleNet /\ IdleDisk

CompareVersionsCall ==
    /\ pc = "compare"
    /\ cmpOut' = compare_versions(cmpA, cmpB)
    /\ cmpRev' = compare_versions(cmpB, cmpA)
    /\ pc' = "compared"
    /\ UNCHANGED << cmpA, cmpB, argVars, netVars, cacheVars, diskVars >>

NextCompare == CompareVersionsCall

SpecCompare == InitCompare /\ [][NextCompare]_vars

(***************************************************************************)
(* SpecFilter: one get_filtered_versions call on a fresh downloader.       *)
(***************************************************************************)
InitFilter ==
    /\ pc = "call"
    /\ command = None /\ auto_download = FALSE
    /\ platform \in Platforms /\ arch \in Archs
    /\ version_filter \in VersionFilters
    /\ latest_only \in BOOLEAN /\ include_legacy \in BOOLEAN
    /\ netModern \in ModernDocs /\ netLegacy \in LegacyListings
    /\ data = NoneData /\ legacy_data = NoneList
    /\ modernGets = 0 /\ legacyGets = 0
    /\ modernOk = "none" /\ legacyOk = "none" /\ versions = << >>
    /\ IdleDisk /\ IdleCompare

\* the effect of one get_filtered_versions call on the downloader
ApplyFiltered(r) ==
    /\ versions' = r.result
    /\ data' = r.data
    /\ legacy_data' = r.legacy_data
    /\ modernGets' = modernGets + r.mGets
    /\ legacyGets' = legacyGets + r.lGets
    /\ modernOk' = r.mOk
    /\ legacyOk' = r.lOk

GetFilteredVersionsCall ==
    /\ pc = "call"
    /\ \E okM, okL \in BOOLEAN :
         ApplyFiltered(get_filtered_versions(data, legacy_data, platform,
                           version_filter, arch, latest_only, include_legacy,
                           okM, okL, netModern, netLegacy))
    /\ pc' = "returned"
    /\ UNCHANGED << argVars, netVars, diskVars, cmpVars >>

NextFilter == GetFilteredVersionsCall

SpecFilter == InitFilter /\ [][NextFilter]_vars

(***************************************************************************)
(* Helpers of the properties.                                              *)
(***************************************************************************)
MinOf(S) == CHOOSE i \in S : \A j \in S : i <= j

PosOf(s, x) == MinOf({ i \in 1..Len(s) : s[i] = x })

RECURSIVE Pow10(_)
Pow10(n) == IF n = 0 THEN 1 ELSE 10 * Pow10(n - 1)

RECURSIVE SumOver(_, _)
SumOver(f, S) ==
    IF S = {} THEN 0
    ELSE LET x == CHOOSE x \in S : TRUE IN f[x] + SumOver(f, S \ {x})

\* the unsigned integer a digit string denotes, by place values
PlaceValue(ds) ==
    SumOver([k \in 1..Len(ds) |-> ds[k] * Pow10(Len(ds) - k)], 1..Len(ds))

\* segment i of a version, a missing trailing segment read as 0
PaddedSegment(v, i) == IF i <= Len(v) THEN PlaceValue(v[i]) ELSE 0

\* -1, 0 or 1 by the first position where the padded versions differ
OrderOfVersions(A, B) ==
    LET differ == { i \in 1..Max(Len(A), Len(B)) :
                      PaddedSegment(A, i) # PaddedSegment(B, i) }
    IN  IF differ = {} THEN 0
        ELSE IF PaddedSegment(A, MinOf(differ)) > PaddedSegment(B, MinOf(differ))
             THEN 1 ELSE -1

V_1_2       == << <<1>>, <<2>> >>
V_1_2_0_0   == << <<1>>, <<2>>, <<0>>, <<0>> >>
V_1_2_3_4   == << <<1>>, <<2>>, <<3>>, <<4>> >>
V_2_0_0_0   == << <<2>>, <<0>>, <<0>>, <<0>> >>
V_1_9_9_9   == << <<1>>, <<9>>, <<9>>, <<9>> >>

(***************************************************************************)
(* C5.  _compare_versions(A,B) is the negation of _compare_versions(B,A),  *)
(* is 0 on equal arguments, and is the order of the segments read left to  *)
(* right as unsigned integers with missing trailing segments read as 0;    *)
(* "1.2" equals "1.2.0.0" and "2.0.0.0" is greater than "1.9.9.9".         *)
(***************************************************************************)
C5_CompareContract ==
    pc = "compared" =>
        /\ cmpOut = OrderOfVersions(cmpA, cmpB)
        /\ cmpOut = 0 - cmpRev
        /\ (cmpA = cmpB => cmpOut = 0)
        /\ compare_versions(V_1_2, V_1_2_0_0) = 0
        /\ compare_versions(V_1_2_3_4, V_1_2_3_4) = 0
        /\ compare_versions(V_2_0_0_0, V_1_9_9_9) = 1

\* two versions of different segment counts that compare equal, and a pair
\* whose order is decided by a two-digit segment
C5_Witness ==
    /\ pc = "compared"
    /\ Len(cmpA) < Len(cmpB)
    /\ cmpOut = 0
    /\ cmpA[1] = <<0,1>> /\ cmpB[1] = <<1>>

C5_WitnessOrdered ==
    /\ pc = "compared"
    /\ cmpA = << <<1,0>> >> /\ cmpB = << <<9>>, <<1>> >>
    /\ cmpOut = 1 /\ cmpRev = -1

(***************************************************************************)
(* The result get_filtered_versions gives a fresh downloader for the       *)
(* run's arguments with some of them replaced, under the fetch outcomes    *)
(* the run saw.                                                            *)
(***************************************************************************)
ResultWith(vf, latest, incl) ==
    get_filtered_versions(NoneData, NoneList, platform, vf, arch, latest,
                          incl, modernOk = "ok", legacyOk = "ok",
                          netModern, netLegacy).result

Idx(s) == 1..Len(s)

\* position of a modern record in the catalog: (entry, download)
EntryPos(r) ==
    MinOf({ i \in Idx(netModern.versions) :
              netModern.versions[i].version = r.version })

DownloadPos(r) ==
    LET dls == netModern.versions[EntryPos(r)].downloads
    IN  MinOf({ k \in Idx(dls) : dls[k].platform = r.platform })

(***************************************************************************)
(* C1.  Without latest_only and with major filter M, the result is exactly *)
(* the records whose version's leading segment equals M as a string (all   *)
(* records when M is absent), modern records before legacy records, each   *)
(* source's records in catalog appearance order.                           *)
(***************************************************************************)
C1_MajorFilterAndOrder ==
    (pc = "returned" /\ ~latest_only /\ modernOk = "ok") =>
        /\ versions =
             SelectSeq(ResultWith(NoFilter, FALSE, include_legacy),
                       LAMBDA r : version_filter = NoFilter
                                  \/ << MajorOf(r.version) >> = version_filter)
        /\ \A i, j \in Idx(versions) :
             i < j => ~(versions[i].source = "legacy"
                        /\ versions[j].source = "modern")
        /\ \A i, j \in Idx(versions) :
             (i < j /\ versions[i].source = "modern"
                    /\ versions[j].source = "modern") =>
                \/ EntryPos(versions[i]) < EntryPos(versions[j])
                \/ /\ EntryPos(versions[i]) = EntryPos(versions[j])
                   /\ DownloadPos(versions[i]) < DownloadPos(versions[j])
        /\ \A i, j \in Idx(versions) :
             (i < j /\ versions[i].source = "legacy"
                    /\ versions[j].source = "legacy") =>
                PosOf(legacy_data.items, versions[i].version)
                    <= PosOf(legacy_data.items, versions[j].version)

\* filter "1" on catalogs that also hold major "01": records of both
\* sources are returned and a "01" record is left out
C1_Witness ==
    /\ pc = "returned" /\ ~latest_only /\ modernOk = "ok"
    /\ version_filter = << <<1>> >>
    /\ \E i, j \in Idx(versions) :
         /\ versions[i].source = "modern" /\ versions[j].source = "legacy"
    /\ \E i, j \in Idx(versions) :
         /\ i < j /\ versions[i].source = "modern"
         /\ versions[j].source = "modern"
         /\ versions[i].version # versions[j].version
    /\ \E r \in Range(ResultWith(NoFilter, FALSE, include_legacy)) :
         MajorOf(r.version) = <<0,1>>

(***************************************************************************)
(* C2.  A platform/arch request resolves to the token set of the mapping   *)
(* table (windows+x64 {win64}; windows+x86 {win32}; windows {win64,        *)
(* win32}; linux+x64 {linux64}; linux+x86 {linux32}; linux {linux64}) and  *)
(* a modern download entry is kept iff its token is in that set.           *)
(***************************************************************************)
TableTokens(p, a) ==
    IF p = "windows" /\ a = "x64" THEN {"win64"}
    ELSE IF p = "windows" /\ a = "x86" THEN {"win32"}
    ELSE IF p = "windows" THEN {"win64", "win32"}
    ELSE IF p = "linux" /\ a = "x64" THEN {"linux64"}
    ELSE IF p = "linux" /\ a = "x86" THEN {"linux32"}
    ELSE {"linux64"}

C2_PlatformTokens ==
    (pc = "returned" /\ ~latest_only /\ modernOk = "ok" /\ platform # None) =>
        \A i \in Idx(VersionsOf(data)) :
            LET e == VersionsOf(data)[i]
            IN  PassesVersionFilter(e.version, version_filter) =>
                  \A k \in Idx(e.downloads) :
                    (ModernRecord(e.version, e.downloads[k]) \in Range(versions))
                      <=> (e.downloads[k].platform
                              \in TableTokens(platform, arch))

(***************************************************************************)
(* C3.  With include_legacy, every legacy version passing the major filter *)
(* gets exactly one legacy record per requested platform token, one for    *)
(* each of win64, win32, linux64, linux32 when no platform/arch is given,  *)
(* and no two legacy records of one version carry the same token.          *)
(***************************************************************************)
LegacyTokens(p, a) ==
    IF p = None THEN {"win64", "win32", "linux64", "linux32"}
    ELSE IF a # None THEN { legacy_platform_map(p, a) }
    ELSE { legacy_platform_map(p, "x64"), legacy_platform_map(p, "x86") }

LegacyAt(v, t) ==
    { n \in Idx(versions) : /\ versions[n].source = "legacy"
                            /\ versions[n].version = v
                            /\ versions[n].platform = t }

C3_LegacyOnePerToken ==
    (/\ pc = "returned" /\ ~latest_only /\ include_legacy
     /\ modernOk = "ok" /\ legacyOk = "ok"
     /\ (platform # None \/ arch = None)) =>
        /\ \A v \in Range(legacy_data.items) :
             PassesVersionFilter(v, version_filter) =>
                \A t \in LegacyTokens(platform, arch) :
                    Cardinality(LegacyAt(v, t)) = 1
        /\ \A n, m \in Idx(versions) :
             (/\ n # m /\ versions[n].source = "legacy"
              /\ versions[m].source = "legacy"
              /\ versions[n].version = versions[m].version) =>
                versions[n].platform # versions[m].platform

(***************************************************************************)
(* C4.  With latest_only the result holds exactly one record for every     *)
(* (major segment, platform token) group of the pre-reduction result; the  *)
(* record's version is maximal in its group under _compare_versions, and   *)
(* of several records tying for the maximum the first encountered is kept. *)
(***************************************************************************)
GroupOf(r) == << MajorOf(r.version), r.platform >>

FirstMaximal(pre, g) ==
    LET members == { i \in Idx(pre) : GroupOf(pre[i]) = g }
    IN  MinOf({ i \in members :
                  \A j \in members :
                     compare_versions(pre[i].version, pre[j].version) >= 0 })

C4_LatestOnePerGroup ==
    (pc = "returned" /\ latest_only /\ modernOk = "ok") =>
        LET pre == ResultWith(version_filter, FALSE, include_legacy)
        IN  /\ { GroupOf(versions[n]) : n \in Idx(versions) }
                 = { GroupOf(pre[i]) : i \in Idx(pre) }
            /\ \A n, m \in Idx(versions) :
                 n # m => GroupOf(versions[n]) # GroupOf(versions[m])
            /\ \A n \in Idx(versions) :
                 versions[n] = pre[FirstMaximal(pre, GroupOf(versions[n]))]

\* a group where two different records tie for the maximum, and a group
\* whose maximum comes after a smaller version
C4_Witness ==
    /\ pc = "returned" /\ latest_only /\ modernOk = "ok"
    /\ LET pre == ResultWith(version_filter, FALSE, include_legacy)
       IN  /\ \E i, j \in Idx(pre) :
                /\ i < j /\ GroupOf(pre[i]) = GroupOf(pre[j])
                /\ pre[i] # pre[j]
                /\ compare_versions(pre[i].version, pre[j].version) = 0
                /\ pre[i] \in Range(versions)
           /\ \E i, j \in Idx(pre) :
                /\ i < j /\ GroupOf(pre[i]) = GroupOf(pre[j])
                /\ compare_versions(pre[i].version, pre[j].version) < 0
                /\ pre[j] \in Range(versions)

(***************************************************************************)
(* C8.  With include_legacy, when the legacy fetch or parse fails and the  *)
(* modern fetch succeeds, the call returns what it returns with            *)
(* include_legacy=False for the same filters; when the modern fetch fails  *)
(* it returns no record.                                                   *)
(***************************************************************************)
C8_LegacyFailureNonFatal ==
    pc = "returned" =>
        /\ (include_legacy /\ modernOk = "ok" /\ legacyOk = "failed") =>
              /\ versions = ResultWith(version_filter, latest_only, FALSE)
              /\ \A n \in Idx(versions) : versions[n].source = "modern"
        /\ (modernOk = "failed") => versions = << >>

\* the legacy listing holds a version that would have been added, the
\* fetch failed, and the modern records are returned
C8_Witness ==
    /\ pc = "returned" /\ include_legacy
    /\ modernOk = "ok" /\ legacyOk = "failed"
    /\ versions # << >>
    /\ \E v \in Range(netLegacy) :
         IsDottedQuad(v) /\ PassesVersionFilter(v, version_filter)

C8_WitnessModernFailed ==
    /\ pc = "returned" /\ modernOk = "failed" /\ include_legacy
    /\ VersionsOf(netModern) # << >> /\ netLegacy # << >>

(***************************************************************************)
(* The download_driver call at the head of pending, any one of its steps   *)
(* raising or none.  makedirs(output_dir) runs only when the directory     *)
(* is absent (line 246).  An exception that leaves download_driver ends    *)
(* the run.                                                                *)
(***************************************************************************)
FailPoints == { "none" } \cup Range(InstallSteps)

CallOf(download_url, version, is_legacy) ==
    [download_url |-> download_url, version |-> version, is_legacy |-> is_legacy]

DownloadDriverCall ==
    /\ pc = "install" /\ pending # << >>
    /\ \E failAt \in FailPoints :
         /\ failAt = "makedirs_output" => ~dir_exists
         /\ LET r == download_driver(Head(pending), dir_exists, existing,
                                     archive, failAt)
            IN  /\ attempts' = Append(attempts,
                                      [call |-> Head(pending), ret |-> r.ret])
                /\ dir_exists' = r.dir_exists
                /\ existing' = r.existing
                /\ source_dir' = r.source_dir
                /\ pending' = IF r.escaped THEN << >> ELSE Tail(pending)
                /\ pc' = IF r.escaped THEN "crashed"
                         ELSE IF Tail(pending) = << >> THEN "done"
                         ELSE "install"
    /\ UNCHANGED << argVars, netVars, cacheVars, missing, archive, cmpVars >>

(***************************************************************************)
(* SpecInstall: one download_driver call on every archive layout.          *)
(***************************************************************************)
ArchiveLayouts == [CandidateNames -> {"absent", "dir", "file"}]

D_1_0  == << <<1>>, <<0>> >>             \* "1.0"
D_01_0 == << <<0,1>>, <<0>> >>           \* "01.0"
D_1    == << <<1>> >>                    \* "1"
D_1_0_0 == << <<1>>, <<0>>, <<0>> >>     \* "1.0.0"
D_1_00 == << <<1>>, <<0,0>> >>           \* "1.00"

InstallCalls ==
    { CallOf(Download(V_1_0_0_9, "linux64").url, V_1_0_0_9, FALSE),
      CallOf(get_legacy_download_url(V_1_0_0_9, "linux", "x64"), V_1_0_0_9, TRUE),
      CallOf(Download(V_01_0_0_1, "win32").url, V_01_0_0_1, FALSE) }

InitInstall ==
    /\ pc = "install"
    /\ pending \in { << c >> : c \in InstallCalls }
    /\ archive \in ArchiveLayouts
    /\ \/ dir_exists = FALSE /\ existing = {}
       \/ dir_exists = TRUE /\ existing \in { {}, { D_1_0 } }
    /\ missing = << >> /\ attempts = << >> /\ source_dir = None
    /\ IdleArgs /\ IdleNet /\ IdleCompare

NextInstall == DownloadDriverCall

SpecInstall == InitInstall /\ [][NextInstall]_vars

LastCall == attempts[Len(attempts)].call

(***************************************************************************)
(* C9 as claimed.  For a modern archive the payload root is the first      *)
(* existing directory among chromedriver-win64, chromedriver-win32,        *)
(* chromedriver-linux64, chromedriver, tried in that order; for a legacy   *)
(* archive it is the archive root.  Stated for the archives whose         *)
(* candidate entries are directories, where "existing directory" and       *)
(* "existing path" agree.                                                  *)
(***************************************************************************)
ClaimedOrder ==
    << "chromedriver-win64", "chromedriver-win32", "chromedriver-linux64",
       "chromedriver" >>

C9_PayloadRootClaimedOrder ==
    (/\ attempts # << >> /\ source_dir # None
     /\ \A n \in CandidateNames : archive[n] # "file") =>
        IF LastCall.is_legacy THEN source_dir = ArchiveRoot
        ELSE LET dirs == { k \in 1..4 : archive[ClaimedOrder[k]] = "dir" }
             IN  dirs # {} => source_dir = ClaimedOrder[MinOf(dirs)]

(***************************************************************************)
(* C9 as amended.  For a modern archive the payload root is the first      *)
(* existing path (a file counts) among chromedriver-win64,                 *)
(* chromedriver-win32, chromedriver, chromedriver-linux64, tried in that   *)
(* order, and the archive root when none exists; for a legacy archive it   *)
(* is the archive root.                                                    *)
(***************************************************************************)
CodeOrder ==
    << "chromedriver-win64", "chromedriver-win32", "chromedriver",
       "chromedriver-linux64" >>

C9_PayloadRootCodeOrder ==
    (attempts # << >> /\ source_dir # None) =>
        IF LastCall.is_legacy THEN source_dir = ArchiveRoot
        ELSE LET present == { k \in 1..4 : archive[CodeOrder[k]] # "absent" }
             IN  IF present = {} THEN source_dir = ArchiveRoot
                 ELSE source_dir = CodeOrder[MinOf(present)]

\* a modern archive holding both chromedriver and chromedriver-linux64
C9_Witness ==
    /\ attempts # << >> /\ ~LastCall.is_legacy
    /\ archive["chromedriver-win64"] = "absent"
    /\ archive["chromedriver-win32"] = "absent"
    /\ archive["chromedriver"] = "dir"
    /\ archive["chromedriver-linux64"] = "dir"
    /\ source_dir = "chromedriver"
    /\ attempts[1].ret

C9_WitnessLegacy ==
    /\ attempts # << >> /\ LastCall.is_legacy
    /\ archive["chromedriver-win64"] = "dir"
    /\ source_dir = ArchiveRoot

(***************************************************************************)
(* Spec: one run of main (lines 364-492) for each of the three commands.   *)
(***************************************************************************)
\* args.version.isdigit() (line 427): digits only, at least one
IsDigitString(v) == Len(v) = 1 /\ Len(v[1]) >= 1

RecordCall(version_info) ==
    CallOf(version_info.download_url, version_info.version,
           version_info.source = "legacy")

\* lines 481-487: the arguments of the call made for one missing entry
MissingCall(driver_info) ==
    CallOf(driver_info.download_url, driver_info.full_version,
           driver_info.is_legacy)

MainDocs ==
    { [kind |-> "dict", keys |-> {}, versions |-> << >>],
      [kind |-> "dict", keys |-> {"timestamp", "versions"},
       versions |-> << Entry(V_1_0_0_9, << "linux64", "win32", "win64" >>),
                       Entry(V_01_0_0_1, << "win64", "linux64" >>) >>],
      [kind |-> "dict", keys |-> {"timestamp", "versions"},
       versions |-> << Entry(V_1_0_0_10, << "win64", "linux64" >>),
                       Entry(V_1_0_0_9, << "linux64", "win64" >>) >>] }

MainListings == { << >>, << V_1_0_0_9, V_01_0_0_2, V_2_46 >> }

MainArchives ==
    { NoArchive,
      [NoArchive EXCEPT !["chromedriver-linux64"] = "dir"],
      [NoArchive EXCEPT !["chromedriver"] = "file"] }

DiskStates ==
    { [dir_exists |-> FALSE, existing |-> {}],
      [dir_exists |-> TRUE, existing |-> {}],
      [dir_exists |-> TRUE, existing |-> { D_1_0 }],
      [dir_exists |-> TRUE, existing |-> { D_1, D_1_0_0, D_1_00 }] }

DownloadVersions ==
    { OneSegment(<<1>>), OneSegment(<<0,1>>), OneSegment(<<7>>), V_1_0_0_9 }

InitRun ==
    /\ pc = "start"
    /\ netModern \in MainDocs /\ netLegacy \in MainListings
    /\ data = NoneData /\ legacy_data = NoneList
    /\ modernGets = 0 /\ legacyGets = 0
    /\ modernOk = "none" /\ legacyOk = "none" /\ versions = << >>
    /\ missing = << >> /\ pending = << >> /\ attempts = << >>
    /\ source_dir = None
    /\ latest_only \in BOOLEAN /\ include_legacy \in BOOLEAN
    /\ IdleCompare

InitList ==
    /\ command = "list" /\ auto_download = FALSE
    /\ platform \in Platforms /\ arch \in Archs
    /\ version_filter \in VersionFilters
    /\ dir_exists = FALSE /\ existing = {} /\ archive = NoArchive

InitDisk ==
    /\ \E ds \in DiskStates :
          dir_exists = ds.dir_exists /\ existing = ds.existing
    /\ archive \in MainArchives

InitDownload ==
    /\ command = "download" /\ auto_download = FALSE
    /\ platform \in PlatformNames /\ arch \in {"x64", "x86"}
    /\ version_filter \in DownloadVersions
    /\ InitDisk

InitMissing ==
    /\ command = "missing" /\ auto_download \in BOOLEAN
    /\ platform \in PlatformNames /\ arch \in {"x64", "x86"}
    /\ version_filter = NoFilter
    /\ InitDisk

Init == InitRun /\ (InitList \/ InitDownload \/ InitMissing)

\* line 418: list_versions (lines 221-236)
ListCommand ==
    /\ pc = "start" /\ command = "list"
    /\ \E okM, okL \in BOOLEAN :
         ApplyFiltered(get_filtered_versions(data, legacy_data, platform,
                           version_filter, arch, latest_only, include_legacy,
                           okM, okL, netModern, netLegacy))
    /\ pc' = "done"
    /\ UNCHANGED << argVars, netVars, diskVars, cmpVars >>

\* lines 427-434: download --latest with a digits-only version
DownloadLatest ==
    /\ pc = "start" /\ command = "download"
    /\ latest_only /\ IsDigitString(version_filter)
    /\ \E okM, okL \in BOOLEAN :
         LET r == get_filtered_versions(data, legacy_data, platform,
                      version_filter, arch, TRUE, include_legacy,
                      okM, okL, netModern, netLegacy)
         IN  /\ ApplyFiltered(r)
             /\ IF r.result # << >>
                THEN pending' = << RecordCall(r.result[1]) >> /\ pc' = "install"
                ELSE pending' = << >> /\ pc' = "resolve"
    /\ UNCHANGED << argVars, netVars, dir_exists, existing, missing, attempts,
                    archive, source_dir, cmpVars >>

\* lines 437-451: the normal path, up to the exact match
DownloadResolve ==
    /\ command = "download"
    /\ \/ pc = "resolve"
       \/ pc = "start" /\ ~(latest_only /\ IsDigitString(version_filter))
    /\ \E okM, okL \in BOOLEAN :
         LET r == get_filtered_versions(data, legacy_data, platform,
                      version_filter, arch, FALSE, include_legacy,
                      okM, okL, netModern, netLegacy)
             exact == { i \in 1..Len(r.result) :
                          r.result[i].version = version_filter }
         IN  /\ ApplyFiltered(r)
             /\ IF r.result = << >>
                THEN pending' = << >> /\ pc' = "done"
                ELSE IF exact # {}
                THEN LET exact_match == r.result[CHOOSE i \in exact :
                                                   \A j \in exact : i <= j]
                     IN  /\ pending' = << CallOf(exact_match.download_url,
                                                 version_filter,
                                                 exact_match.source = "legacy") >>
                         /\ pc' = "install"
                ELSE pending' = << >> /\ pc' = "prompt"
    /\ UNCHANGED << argVars, netVars, dir_exists, existing, missing, attempts,
                    archive, source_dir, cmpVars >>

\* lines 453-462: the prompt; choice 0 stands for 'q' and for any input
\* that is not a number, Len(versions)+1 for a number out of range
DownloadPrompt ==
    /\ pc = "prompt"
    /\ \E choice \in 0..(Len(versions) + 1) :
         IF 1 <= choice /\ choice <= Len(versions)
         THEN pending' = << RecordCall(versions[choice]) >> /\ pc' = "install"
         ELSE pending' = << >> /\ pc' = "done"
    /\ UNCHANGED << argVars, netVars, cacheVars, dir_exists, existing, missing,
                    attempts, archive, source_dir, cmpVars >>

\* lines 464-489: find_missing_drivers, then the batch when --download
MissingCommand ==
    /\ pc = "start" /\ command = "missing"
    /\ \E okM, okL \in BOOLEAN :
         LET r == find_missing_drivers(data, legacy_data, existing, platform,
                      arch, latest_only, include_legacy, okM, okL,
                      netModern, netLegacy)
         IN  /\ ApplyFiltered(r.filtered)
             /\ dir_exists' = r.dir_exists
             /\ missing' = r.missing
             /\ IF r.missing # << >> /\ auto_download
                THEN /\ pending' = [k \in 1..Len(r.missing) |->
                                      MissingCall(r.missing[k])]
                     /\ pc' = "install"
                ELSE pending' = << >> /\ pc' = "done"
    /\ UNCHANGED << argVars, netVars, existing, attempts, archive, source_dir,
                    cmpVars >>

Next ==
    \/ ListCommand
    \/ DownloadLatest
    \/ DownloadResolve
    \/ DownloadPrompt
    \/ MissingCommand
    \/ DownloadDriverCall

Spec == Init /\ [][Next]_vars

(***************************************************************************)
(* C6.  find_missing_drivers returns an entry with version_dir "<major>.0" *)
(* iff some filtered record has that major and no existing subdirectory    *)
(* is named exactly "<major>.0"; the list holds one entry per such major.  *)
(***************************************************************************)
C6_MissingExactlyUninstalledMajors ==
    (command = "missing" /\ pc # "start" /\ attempts = << >>) =>
        /\ { missing[k].version_dir : k \in Idx(missing) }
             = { << versions[n].version[1], <<0>> >> : n \in Idx(versions) }
                  \ existing
        /\ \A k, l \in Idx(missing) :
             k # l => missing[k].version_dir # missing[l].version_dir

\* local directory {"1.0"}, index majors "1" and "01": only "01.0" is missing
C6_Witness ==
    /\ command = "missing" /\ pc # "start" /\ attempts = << >>
    /\ existing = { D_1_0 }
    /\ \E n \in Idx(versions) : versions[n].version[1] = <<1>>
    /\ Len(missing) = 1 /\ missing[1].version_dir = D_01_0

\* directories "1", "1.0.0" and "1.00" do not stand for "1.0"
C6_WitnessNearNames ==
    /\ command = "missing" /\ pc # "start" /\ attempts = << >>
    /\ existing = { D_1, D_1_0_0, D_1_00 }
    /\ \E k \in Idx(missing) : missing[k].version_dir = D_1_0

\* an empty directory: one entry per major of the index
C6_WitnessEmptyDir ==
    /\ command = "missing" /\ pc # "start" /\ attempts = << >>
    /\ existing = {} /\ latest_only /\ Len(versions) > 2
    /\ Len(missing) = 2

(***************************************************************************)
(* C7.  Within one invocation of a command each network catalog (modern    *)
(* and legacy) is fetched at most once, whatever the outcome of the fetch  *)
(* and however many times get_filtered_versions is called.                 *)
(***************************************************************************)
C7_EachCatalogFetchedOnce == modernGets <= 1 /\ legacyGets <= 1

(***************************************************************************)
(* C10.  In the missing command with --download every entry of the missing *)
(* list gets exactly one install attempt, in list order; a failure of an   *)
(* I/O step of one install never prevents the attempts for the remaining   *)
(* entries: the calls made and the calls still to be made are, together    *)
(* and in order, the calls of the missing list, and the run ends only      *)
(* when none is left.                                                      *)
(***************************************************************************)
C10_BatchAttemptsEveryEntry ==
    (command = "missing" /\ auto_download /\ pc # "start") =>
        /\ [k \in Idx(attempts) |-> attempts[k].call] \o pending
             = [k \in Idx(missing) |->
                  CallOf(missing[k].download_url, missing[k].full_version,
                         missing[k].is_legacy)]
        /\ pc \in {"install", "done"}
        /\ pc = "done" <=> pending = << >>

\* the first install failed and the second entry was still attempted
C10_Witness ==
    /\ command = "missing" /\ auto_download /\ pc = "done"
    /\ Len(missing) = 2 /\ Len(attempts) = 2
    /\ ~attempts[1].ret /\ attempts[2].ret
    /\ attempts[1].call # attempts[2].call

(***************************************************************************)
(* C11.  In the download command, when the merged catalog holds a record   *)
(* for the requested platform/arch whose version equals the requested      *)
(* version string (e.g. a full version "114.0.5735.90"), exactly that      *)
(* record is installed and no prompt is shown; the prompt is reached only  *)
(* when no record's version equals the requested string.                   *)
(***************************************************************************)
\* the records of the catalogs the downloader holds, for the requested
\* platform and arch, whatever their version
HeldRecords ==
    ModernRecords(data, platform, NoFilter, arch)
      \o (IF include_legacy /\ TruthyList(legacy_data)
          THEN LegacyRecords(legacy_data.items, platform, NoFilter, arch)
          ELSE << >>)

ExactRecords ==
    { HeldRecords[i] : i \in { j \in Idx(HeldRecords) :
                                 HeldRecords[j].version = version_filter } }

C11_ExactVersionInstalled ==
    (command = "download" /\ ExactRecords # {}) =>
        /\ pc # "prompt"
        /\ pc = "done" =>
             /\ Len(attempts) = 1
             /\ \E r \in ExactRecords :
                  attempts[1].call =
                     CallOf(r.download_url, version_filter, r.source = "legacy")

(***************************************************************************)
(* C12.  For each command (list, download, missing): when version          *)
(* resolution yields no matching record, the command reports it and exits  *)
(* without side effects: no download is attempted and no file or directory *)
(* is created, changed or removed.                                         *)
(***************************************************************************)
\* a step of a command that resolves versions and gets no record
ResolvesNothing ==
    /\ pc \in {"start", "resolve"}
    /\ versions' = << >>

NoDownloadAttempted ==
    /\ pending' = << >> /\ missing' = << >>
    /\ attempts' = attempts
    /\ pc' \in {"done", "resolve"}
    /\ pc' = "resolve" => (pc = "start" /\ command = "download" /\ latest_only)

\* as stated: the disk is left exactly as it was
C12_NoRecordNoSideEffect ==
    [][ResolvesNothing =>
          /\ NoDownloadAttempted
          /\ UNCHANGED << dir_exists, existing, archive, source_dir >>]_vars

\* C12 as the code has it: no download is attempted and no subdirectory or
\* file is touched, but the missing command has created the drivers
\* directory (lines 327-329) when it did not exist
C12_NoRecordOnlyDriversDirCreated ==
    [][ResolvesNothing =>
          /\ NoDownloadAttempted
          /\ UNCHANGED << existing, archive, source_dir >>
          /\ dir_exists' = (dir_exists \/ command = "missing")]_vars

\* the missing command ended without a record, on a directory that it had
\* to create, although the catalog holds versions for other platforms
C12_Witness ==
    /\ command = "missing" /\ pc = "done"
    /\ versions = << >> /\ missing = << >> /\ attempts = << >>
    /\ dir_exists /\ existing = {}
    /\ modernOk = "ok" /\ VersionsOf(data) # << >>

\* the download command ended without a record and without a directory
C12_WitnessDownload ==
    /\ command = "download" /\ pc = "done"
    /\ versions = << >> /\ attempts = << >>
    /\ ~dir_exists /\ existing = {}
    /\ modernOk = "ok" /\ VersionsOf(data) # << >>

(***************************************************************************)
(* SpecSync: the missing command run again and again on one drivers        *)
(* directory.  Every invocation starts with a new ChromeDriverDownloader   *)
(* (line 412), so nothing but the disk is carried over; attempts keeps the *)
(* download_driver calls of all the invocations so far.                    *)
(***************************************************************************)
MaxAttempts == 3

InitSync == InitRun /\ InitMissing

\* lines 410-412: the program is started again with the same arguments
NewInvocation ==
    /\ pc = "done" /\ Len(attempts) < MaxAttempts
    /\ pc' = "start"
    /\ data' = NoneData /\ legacy_data' = NoneList
    /\ modernGets' = 0 /\ legacyGets' = 0
    /\ modernOk' = "none" /\ legacyOk' = "none" /\ versions' = << >>
    /\ missing' = << >> /\ pending' = << >> /\ source_dir' = None
    /\ UNCHANGED << argVars, netVars, dir_exists, existing, attempts, archive,
                    cmpVars >>

NextSync ==
    \/ MissingCommand
    \/ DownloadDriverCall
    \/ NewInvocation

SpecSync == InitSync /\ [][NextSync]_vars

(***************************************************************************)
(* C13.  Across any sequence of install attempts and reconciliation passes *)
(* on one drivers directory, a "<major>.0" subdirectory that did not exist *)
(* initially exists only if some download_driver call for that major       *)
(* returned success; so a version whose install failed is still reported   *)
(* missing by the next find_missing_drivers pass, and a version whose      *)
(* install succeeded is no longer reported.                                *)
(***************************************************************************)
SucceededFor(log, version_dir) ==
    \E k \in Idx(log) :
        log[k].ret /\ VersionDir(log[k].call.version) = version_dir

ReportedDirs(missing_drivers) ==
    { missing_drivers[k].version_dir : k \in Idx(missing_drivers) }

\* a subdirectory appears only with a successful call for its major
NewDirNeedsSuccess ==
    \A d \in existing' \ existing : SucceededFor(attempts', d)

\* a step that is a find_missing_drivers pass
FindPass == pc = "start" /\ pc' # "start"

\* the pass reports again every version it still resolves whose installs
\* have all failed
FailedStillReported ==
    FindPass =>
      \A k \in Idx(attempts) :
        LET d == VersionDir(attempts[k].call.version)
        IN  (/\ ~SucceededFor(attempts, d)
             /\ \E i \in Idx(versions') : VersionDir(versions'[i].version) = d)
               => d \in ReportedDirs(missing')

\* the pass no longer reports a version some install of which succeeded
SucceededNotReported ==
    FindPass =>
      \A k \in Idx(attempts) :
        attempts[k].ret =>
          VersionDir(attempts[k].call.version) \notin ReportedDirs(missing')

C13_DirOnlyAfterSuccess ==
    [][/\ NewDirNeedsSuccess
       /\ FailedStillReported
       /\ SucceededNotReported]_vars

====
